---- MODULE Spec2Model ----
(***************************************************************************)
(* Task lifecycle and process orchestration of the video backend:          *)
(*   TaskManager            (utils/task-manager.js, kept in src/README.md) *)
(*   VideoProcessor         (video-backend/utils/video-processor.js)       *)
(*   router, processVideoAsync (video-backend/routes/api.js)               *)
(*                                                                         *)
(* JavaScript runs one handler at a time: an event handler together with   *)
(* the promise continuations (microtasks) it makes runnable is one atomic  *)
(* step.  A real suspension (await fs.stat, waiting for a process event    *)
(* or a timer) ends the step.                                              *)
(***************************************************************************)
EXTENDS Integers, Sequences, FiniteSets, TLC

(***************************************************************************)
(* Bounds of the model.                                                    *)
(***************************************************************************)
\* number of task ids ever issued by createTask
MaxIds == 2
\* last value of the clock
MaxTime == 2
\* stdout chunks delivered in a run, over all converter processes
MaxChunks == 2
\* stderr chunks delivered per converter process
MaxErrChunks == 1
\* number of task ids issued in a run of the registry's specification
MaxCreated == 3

(***************************************************************************)
(* Program constants, scaled to the clock of the model.                    *)
(***************************************************************************)
\* this.maxTasks = 100; scaled so that eviction happens within MaxIds
DefaultMaxTasks == 1
\* this.maxTasks = 100, scaled for the registry's specification: room for
\* several entries, and eviction within MaxCreated
RegistryMaxTasks == 2
\* getRecentResults(limit = 20)
DefaultLimit == 20
\* maxAge = 24 * 60 * 60 * 1000 ms; one unit of the model's clock
maxAge == 1
\* 30 * 60 * 1000 ms ceiling of a download; one unit of the model's clock
timeoutDelay == 1

(***************************************************************************)
(* Inputs.                                                                 *)
(***************************************************************************)
\* req.body.url: a URL, or "" for a request without one
Urls == {"https://youtu.be/a", ""}
\* req.body.quality as sent by a client
RequestQualities == {"720p", "8K"}
\* the quality argument of a direct call of processVideo: the defined tokens,
\* tokens qualityMap does not define, and the name of a property every object
\* inherits
QualityTokens == {"720p", "1080p", "4K", "8K", "", "constructor"}
\* exit codes handed to 'close': 0 and a failure code
ExitCodes == {0, 2}
\* error.code of a process 'error' event: why the spawn failed
ErrorCodes == {"ENOENT", "EACCES"}
\* the file at the output path when the process has exited: {} when there is
\* none, else {its size}
Artifacts == {{}, {0}, {5}}

(***************************************************************************)
(* Characters of a process's stdout.  A progress line of                   *)
(* --progress-template '%(progress)j' is the JSON text of one object: an   *)
(* opening brace, the members, a closing brace.  A character is a record   *)
(* [ch]; the members of an object are one character of the model, a        *)
(* record [status, percent].  percent is a JS                              *)
(* value: [kind |-> "num", v |-> tenths of a percent], a non-numeric       *)
(* string [kind |-> "text"], or absent [kind |-> "none"].                  *)
(***************************************************************************)
Char(c) == [ch |-> c]
NL == Char("\n")
LBrace == Char("{")
RBrace == Char("}")
Num(v) == [kind |-> "num", v |-> v]
Members(st, p) == [status |-> st, percent |-> p]
\* the percentages carried by the stream: 30.4, 70, 150
Percents == {304, 700, 1500}
ProgressLines == { <<LBrace, Members("downloading", Num(v)), RBrace>> : v \in Percents }

IsMembers(c) == c \notin {NL, LBrace, RBrace}

RECURSIVE Split(_, _)
\* String.prototype.split(sep): the pieces between separators; a trailing
\* separator yields a last empty piece.
Split(s, sep) ==
    IF \A i \in 1..Len(s) : s[i] # sep
    THEN <<s>>
    ELSE LET i == CHOOSE k \in 1..Len(s) :
                      s[k] = sep /\ \A j \in 1..(k - 1) : s[j] # sep
         IN  <<SubSeq(s, 1, i - 1)>> \o Split(SubSeq(s, i + 1, Len(s)), sep)

\* JSON.parse(line.trim()): {} when it throws, else {the parsed object}.
\* Only a complete object text parses; a prefix or a suffix of one throws.
JSONParse(line) ==
    IF Len(line) = 3 /\ line[1] = LBrace /\ IsMembers(line[2]) /\ line[3] = RBrace
    THEN {line[2]}
    ELSE {}

\* JS truthiness of progressInfo.percent
Truthy(p) == (p.kind = "num" /\ p.v # 0) \/ p.kind = "text"

\* parseFloat(progressInfo.percent): {} for NaN, else {tenths}
ParseFloat(p) == IF p.kind = "num" THEN {p.v} ELSE {}

\* Math.round of a value given in tenths: floor(x + 0.5)
MathRound(t) == (t + 5) \div 10

\* The values the stdout handler hands to progressCallback for one line.
LineProgress(line) ==
    IF line = <<>>
    THEN <<>>
    ELSE LET parsed == JSONParse(line)
         IN  IF parsed = {}
             THEN <<>>
             ELSE LET progressInfo == CHOOSE o \in parsed : TRUE
                  IN  IF progressInfo.status = "downloading" /\ Truthy(progressInfo.percent)
                           /\ ParseFloat(progressInfo.percent) # {}
                      THEN <<CHOOSE x \in ParseFloat(progressInfo.percent) : TRUE>>
                      ELSE <<>>

RECURSIVE Emitted(_)
\* The calls of progressCallback made by one run of the stdout handler over
\* `lines`, in order.
Emitted(lines) ==
    IF lines = <<>> THEN <<>>
    ELSE LineProgress(Head(lines)) \o Emitted(Tail(lines))

\* The stdout handler's calls for the buffer progressData: every piece of
\* progressData.split('\n') is decoded, on every chunk.
StdoutCallbacks(progressData) == Emitted(Split(progressData, NL))

(***************************************************************************)
(* TaskManager                                                             *)
(***************************************************************************)
\* { ...task, ...updates }
Merge(task, updates) ==
    [k \in (DOMAIN task) \cup (DOMAIN updates) |->
        IF k \in DOMAIN updates THEN updates[k] ELSE task[k]]

\* an updateTask that stores the updates of an absent id as a new entry
updateTaskUpsert(ts, taskId, updates, t) ==
    [a \in (DOMAIN ts) \cup {taskId} |->
        IF a = taskId
        THEN Merge(Merge(IF a \in DOMAIN ts THEN ts[a] ELSE <<>>, updates),
                   [updatedAt |-> t])
        ELSE ts[a]]

\* an updateTask of a registry whose records share one object: the updates
\* of a present id reach every record
updateTaskShared(ts, taskId, updates, t) ==
    IF taskId \notin DOMAIN ts
    THEN ts
    ELSE [a \in DOMAIN ts |-> Merge(Merge(ts[a], updates), [updatedAt |-> t])]

\* an updateTask that spreads the updates last: { ...task, updatedAt, ...updates }
updateTaskCallerWins(ts, taskId, updates, t) ==
    IF taskId \notin DOMAIN ts
    THEN ts
    ELSE [ts EXCEPT ![taskId] = Merge(Merge(ts[taskId], [updatedAt |-> t]), updates)]

\* updateTask(taskId, updates) at time t: the new map
updateTask(ts, taskId, updates, t) ==
    IF taskId \notin DOMAIN ts
    THEN ts
    ELSE [ts EXCEPT ![taskId] = Merge(Merge(ts[taskId], updates), [updatedAt |-> t])]

\* getTask(taskId): {} for null, else {the task}
getTask(ts, taskId) == IF taskId \in DOMAIN ts THEN {ts[taskId]} ELSE {}

\* the value updateTask returns
updateTaskResult(ts, taskId) == taskId \in DOMAIN ts

\* a sort of the tasks by updatedAt
BeforeByUpdate(ts, a, b) ==
    \/ ts[a].updatedAt < ts[b].updatedAt
    \/ ts[a].updatedAt = ts[b].updatedAt /\ a < b

\* a sort that puts the later inserted of two tasks with equal createdAt
\* first
BeforeTiesReversed(ts, a, b) ==
    \/ ts[a].createdAt < ts[b].createdAt
    \/ ts[a].createdAt = ts[b].createdAt /\ a > b

\* Array.from(this.tasks.values()).sort(by createdAt): the sort is stable and
\* a Map iterates in insertion order, which is the order of the ids.
Before(ts, a, b) ==
    \/ ts[a].createdAt < ts[b].createdAt
    \/ ts[a].createdAt = ts[b].createdAt /\ a < b

\* a cleanup that removes one task fewer
tasksToRemoveShort(ts, limit) ==
    IF Cardinality(DOMAIN ts) <= limit
    THEN {}
    ELSE { a \in DOMAIN ts :
             Cardinality({ b \in DOMAIN ts : Before(ts, b, a) })
                 < Cardinality(DOMAIN ts) - limit - 1 }

\* cleanupOldTasks(): tasks.slice(0, this.tasks.size - this.maxTasks) of the
\* sorted tasks, as the set of their ids
tasksToRemove(ts, limit) ==
    IF Cardinality(DOMAIN ts) <= limit
    THEN {}
    ELSE { a \in DOMAIN ts :
             Cardinality({ b \in DOMAIN ts : Before(ts, b, a) })
                 < Cardinality(DOMAIN ts) - limit }

cleanupOldTasks(ts, limit) ==
    [a \in (DOMAIN ts) \ tasksToRemove(ts, limit) |-> ts[a]]

\* a createTask that stamps the record with the two readings swapped
createTaskAtSwapped(ts, limit, taskId, taskData, t1, t2) ==
    LET task == Merge(Merge([taskId |-> taskId], taskData),
                      [createdAt |-> t2, updatedAt |-> t1])
        added == [a \in (DOMAIN ts) \cup {taskId} |->
                     IF a = taskId THEN task ELSE ts[a]]
    IN  cleanupOldTasks(added, limit)

\* createTask(taskData) with the id uuidv4() returned; createdAt and
\* updatedAt are two readings of the clock, t1 and then t2
createTaskAt(ts, limit, taskId, taskData, t1, t2) ==
    LET task == Merge(Merge([taskId |-> taskId], taskData),
                      [createdAt |-> t1, updatedAt |-> t2])
        added == [a \in (DOMAIN ts) \cup {taskId} |->
                     IF a = taskId THEN task ELSE ts[a]]
    IN  cleanupOldTasks(added, limit)

\* createTask(taskData) in a handler that runs within one reading of the
\* clock
createTask(ts, limit, taskId, taskData, t) ==
    createTaskAt(ts, limit, taskId, taskData, t, t)

\* a sweep that also deletes a task as old as maxAge
tasksToDeleteAtAge(ts, t) ==
    { a \in DOMAIN ts :
        /\ ts[a].status \in {"completed", "failed"}
        /\ t - ts[a].updatedAt >= maxAge }

\* a sweep that deletes old tasks of any status
tasksToDeleteAnyStatus(ts, t) ==
    { a \in DOMAIN ts : t - ts[a].updatedAt > maxAge }

\* the setInterval callback of startCleanupTimer at time t: the ids deleted
tasksToDelete(ts, t) ==
    { a \in DOMAIN ts :
        /\ ts[a].status \in {"completed", "failed"}
        /\ t - ts[a].updatedAt > maxAge }

\* the place of a among the completed and failed tasks sorted by updatedAt,
\* latest first: the sort is stable, and equal keys stay in the Map's
\* insertion order, the order of the ids
Newer(ts, a, b) ==
    \/ ts[a].updatedAt > ts[b].updatedAt
    \/ ts[a].updatedAt = ts[b].updatedAt /\ a < b

\* a field of a task as an optional value: {} when undefined
Field(task, field) == IF field \in DOMAIN task THEN {task[field]} ELSE {}

\* the object getRecentResults maps a task to
ResultOf(task) ==
    [ taskId      |-> task.taskId,
      status      |-> task.status,
      url         |-> task.url,
      quality     |-> task.quality,
      filename    |-> Field(task, "filename"),
      downloadUrl |-> Field(task, "downloadUrl"),
      error       |-> Field(task, "error"),
      createdAt   |-> task.createdAt,
      updatedAt   |-> task.updatedAt ]

\* a getRecentResults that sorts by updatedAt, earliest first
getRecentResultsAscending(ts, limit) ==
    LET kept == { a \in DOMAIN ts : ts[a].status = "completed" \/ ts[a].status = "failed" }
        place(a) == 1 + Cardinality({ b \in kept : Newer(ts, a, b) })
        n == IF limit < Cardinality(kept) THEN limit ELSE Cardinality(kept)
    IN  [ i \in 1..n |-> ResultOf(ts[CHOOSE a \in kept : place(a) = i]) ]

\* getRecentResults(limit), limit >= 0: filter, sort, slice(0, limit), map
getRecentResults(ts, limit) ==
    LET kept == { a \in DOMAIN ts : ts[a].status = "completed" \/ ts[a].status = "failed" }
        place(a) == 1 + Cardinality({ b \in kept : Newer(ts, b, a) })
        n == IF limit < Cardinality(kept) THEN limit ELSE Cardinality(kept)
    IN  [ i \in 1..n |-> ResultOf(ts[CHOOSE a \in kept : place(a) = i]) ]

(***************************************************************************)
(* VideoProcessor.processVideo: names and messages                         *)
(***************************************************************************)
\* crypto.createHash('md5').update(url).digest('hex').substring(0, 8)
Hash(url) == IF url = "https://youtu.be/a" THEN "9f2c11d0" ELSE "d41d8cd9"

\* `video_${timestamp}_${hash}.mp4`
Filename(timestamp, url) == [timestamp |-> timestamp, hash |-> Hash(url), ext |-> "mp4"]

\* the own properties of the object literal qualityMap.  A format selector
\* is modelled as the sequence of its alternatives, the texts between the
\* '/' separators, in order.
qualityMap ==
    [ q \in {"720p", "1080p", "4K"} |->
        CASE q = "720p"  -> <<"398+140", "136+140", "best[height<=720]+140",
                              "best[height<=720]">>
          [] q = "1080p" -> <<"399+140", "137+140", "best[height<=1080]+140",
                              "best[height<=1080]">>
          [] q = "4K"    -> <<"401+140", "313+140", "best[height<=2160]+140",
                              "best[height<=2160]">> ]

\* names every object literal inherits from Object.prototype
ObjectPrototype == {"constructor", "toString", "valueOf", "hasOwnProperty", "__proto__"}

\* qualityMap[quality]: the value of an own property, the function or object
\* of an inherited one (no selector text: chain <<>>), or undefined
PropertyLookup(quality) ==
    IF quality \in DOMAIN qualityMap
    THEN [kind |-> "string", chain |-> qualityMap[quality]]
    ELSE IF quality \in ObjectPrototype
         THEN [kind |-> "inherited", chain |-> <<>>]
         ELSE [kind |-> "undefined", chain |-> <<>>]

\* qualityMap[quality] || 'best': only undefined is falsy among the values
\* PropertyLookup yields
formatSelector(quality) ==
    IF PropertyLookup(quality).kind = "undefined"
    THEN [kind |-> "string", chain |-> <<"best">>]
    ELSE PropertyLookup(quality)

validQualities == {"720p", "1080p", "4K"}

TimeoutMsg == "Video download timeout (30 minutes)"
MissingToolMsg == "yt-dlp is not installed or not in PATH"
ProcessErrorMsg == "Process error: spawn yt-dlp EACCES"
EmptyMsg == "Output file not found or empty: Downloaded file is empty"
NoFileMsg == "Output file not found or empty: ENOENT: no such file or directory"
ExitMsg(code) ==
    IF code = 2 THEN "yt-dlp process failed with code 2"
    ELSE "yt-dlp process failed with code N"

\* an 'error' handler that reports every spawn failure alike
ErrorEventMsgGeneric(code) == ProcessErrorMsg

\* the message of the 'error' handler's rejection
ErrorEventMsg(code) == IF code = "ENOENT" THEN MissingToolMsg ELSE ProcessErrorMsg

\* the text of a rejection message, as the pieces its template literal is
\* put together from: the fixed text and the values interpolated into it
MessageParts(message) ==
    CASE message = ExitMsg(2) -> <<"yt-dlp process failed with code ", "2">>
      [] message = ExitMsg(-2) -> <<"yt-dlp process failed with code ", "N">>
      [] message = ProcessErrorMsg -> <<"Process error: ", "spawn yt-dlp EACCES">>
      [] message = EmptyMsg -> <<"Output file not found or empty: ", "Downloaded file is empty">>
      [] message = NoFileMsg ->
             <<"Output file not found or empty: ", "ENOENT: no such file or directory">>
      [] OTHER -> <<message>>

\* whether the text of message has `text` in it
Contains(message, text) ==
    \E i \in 1..Len(MessageParts(message)) : MessageParts(message)[i] = text

\* the verdict of a close handler that takes exit code 0 for success
StatVerdictNone(artifact) == {}

\* the verdict of a close handler that checks only that the file exists
StatVerdictAnySize(artifact) == IF artifact = {} THEN {NoFileMsg} ELSE {}

\* the close handler's verdict on fs.stat of the output path: {} when it
\* resolves, else {the rejection message}
StatVerdict(artifact) ==
    IF artifact = {} THEN {NoFileMsg}
    ELSE IF \E size \in artifact : size > 0 THEN {}
    ELSE {EmptyMsg}

(***************************************************************************)
(* State                                                                   *)
(***************************************************************************)
VARIABLES
    tasks,      \* TaskManager.tasks: task id -> task record
    maxTasks,   \* TaskManager.maxTasks
    issued,     \* number of ids uuidv4() has returned; the ids are 1..issued
    now,        \* Date.now()
    proc,       \* per issued id: the converter process, its handlers' closure
                \* variables and the promise of processVideo
    statusLog,  \* per issued id: the status values stored in the registry,
                \* in order, repeats collapsed
    finals,     \* per issued id: the terminal updateTask calls issued by
                \* processVideoAsync, in order
    reply,      \* the response last sent to a client, in the specification
                \* of the request handlers; NoReply elsewhere
    client      \* per task submitted through DownloadForm: its polling loop,
                \* in the specification of the client; empty elsewhere

vars == <<tasks, maxTasks, issued, now, proc, statusLog, finals, reply, client>>

\* no response has been recorded
NoReply == [status |-> 0]

Ids == 1..MaxIds

\* the closure of processVideo right after the promise executor has run
Spawned(url, quality, t) ==
    [ url          |-> url,
      quality      |-> quality,
      format       |-> formatSelector(quality),
      filename     |-> Filename(t, url),
      spawnedAt    |-> t,
      progressData |-> <<>>,
      errorOutput  |-> <<>>,
      details      |-> <<>>,   \* error.details of the close handler's rejection
      errorCode    |-> {},     \* {error.code} once 'error' has been delivered
      chunks       |-> 0,
      calls        |-> <<>>,   \* the values handed to progressCallback so far
      closed       |-> FALSE,
      errored      |-> FALSE,
      code         |-> {},     \* {the exit code} once the process has closed
      artifact     |-> {},     \* the file at outputPath, {} or {its size}
      pc           |-> "running",
      timeout      |-> "armed",
      signals      |-> 0,
      promise      |-> "pending",
      outcome      |-> "" ]

Init ==
    /\ tasks = <<>>
    /\ maxTasks = DefaultMaxTasks
    /\ issued = 0
    /\ now = 0
    /\ proc = <<>>
    /\ statusLog = <<>>
    /\ finals = <<>>
    /\ reply = NoReply
    /\ client = <<>>

\* statusLog after a store of status s for id (no store when the id is absent)
Logged(log, ts, id, s) ==
    IF id \in DOMAIN ts /\ log[id][Len(log[id])] # s
    THEN [log EXCEPT ![id] = Append(@, s)]
    ELSE log

(***************************************************************************)
(* processVideoAsync: the registry updates it issues                       *)
(***************************************************************************)
ProcessingUpdate == [status |-> "processing", progress |-> 0]

\* a progress callback that stores the progress of an absent id as a new
\* entry
progressCallbackUpsert(ts, taskId, progress, t) ==
    updateTaskUpsert(ts, taskId,
                     [status |-> "processing", progress |-> MathRound(progress)], t)

\* the progress callback handed to processVideo
progressCallback(ts, taskId, progress, t) ==
    updateTask(ts, taskId,
               [status |-> "processing", progress |-> MathRound(progress)], t)

\* a completion update that stores the download URL under url
CompletedUpdateAsUrl(filename) ==
    [ status      |-> "completed",
      progress    |-> 100,
      filename    |-> filename,
      url         |-> <<"/api/download/", filename>>,
      result      |-> [filename |-> filename,
                       downloadUrl |-> <<"/api/download/", filename>>] ]

CompletedUpdate(filename) ==
    [ status      |-> "completed",
      progress    |-> 100,
      filename    |-> filename,
      downloadUrl |-> <<"/api/download/", filename>>,
      result      |-> [filename |-> filename,
                       downloadUrl |-> <<"/api/download/", filename>>] ]

\* a catch block that stores the status without the error
FailedUpdateSilent(message) ==
    [ status |-> "failed",
      result |-> [error |-> message] ]

\* a catch block that also names the file the run was writing
FailedUpdateWithFile(message) ==
    [ status   |-> "failed",
      error    |-> message,
      filename |-> "video.part",
      result   |-> [error |-> message] ]

\* a catch block that resets the progress
FailedUpdateReset(message) ==
    [ status   |-> "failed",
      progress |-> 0,
      error    |-> message,
      result   |-> [error |-> message] ]

FailedUpdate(message) ==
    [ status |-> "failed",
      error  |-> message,
      result |-> [error |-> message] ]

RECURSIVE ApplyCallbacks(_, _, _, _)
\* the registry after the calls of progressCallback for `values`, in order
ApplyCallbacks(ts, taskId, values, t) ==
    IF values = <<>> THEN ts
    ELSE ApplyCallbacks(progressCallback(ts, taskId, Head(values), t),
                        taskId, Tail(values), t)

(***************************************************************************)
(* The promise of processVideo.  resolve and reject act on a pending       *)
(* promise only; the continuation of processVideoAsync's await runs as a   *)
(* microtask of the step that settles it.                                  *)
(***************************************************************************)
\* a promise that every call of resolve or reject settles anew
IsPendingAlways(p) == TRUE

IsPending(p) == p.promise = "pending"

\* a rejection that is fatal to the service: the failure is stored on the
\* record of every task in the registry
RejectFatal(id, p, message) ==
    IF IsPending(p)
    THEN /\ proc' = [proc EXCEPT ![id] =
                        [p EXCEPT !.promise = "rejected", !.outcome = message]]
         /\ tasks' = [a \in DOMAIN tasks |->
                         Merge(Merge(tasks[a], FailedUpdate(message)), [updatedAt |-> now])]
         /\ statusLog' = Logged(statusLog, tasks, id, "failed")
         /\ finals' = [finals EXCEPT ![id] = Append(@, "failed")]
    ELSE /\ proc' = [proc EXCEPT ![id] = p]
         /\ UNCHANGED <<tasks, statusLog, finals>>

\* reject(new Error(message)) by the handler that leaves the closure as p
Reject(id, p, message) ==
    IF IsPending(p)
    THEN /\ proc' = [proc EXCEPT ![id] =
                        [p EXCEPT !.promise = "rejected", !.outcome = message]]
         /\ tasks' = updateTask(tasks, id, FailedUpdate(message), now)
         /\ statusLog' = Logged(statusLog, tasks, id, "failed")
         /\ finals' = [finals EXCEPT ![id] = Append(@, "failed")]
    ELSE /\ proc' = [proc EXCEPT ![id] = p]
         /\ UNCHANGED <<tasks, statusLog, finals>>

\* resolve({filename, path, size}) by the handler that leaves the closure as p
Resolve(id, p) ==
    IF IsPending(p)
    THEN /\ proc' = [proc EXCEPT ![id] =
                        [p EXCEPT !.promise = "resolved", !.outcome = "resolved"]]
         /\ tasks' = updateTask(tasks, id, CompletedUpdate(p.filename), now)
         /\ statusLog' = Logged(statusLog, tasks, id, "completed")
         /\ finals' = [finals EXCEPT ![id] = Append(@, "completed")]
    ELSE /\ proc' = [proc EXCEPT ![id] = p]
         /\ UNCHANGED <<tasks, statusLog, finals>>

(***************************************************************************)
(* POST /api/download                                                      *)
(***************************************************************************)
\* a validation that checks the url only
ValidateUrlOnly(url, quality) == IF url = "" THEN 400 ELSE 200

\* the handler's validation: the status of the response it ends with, 200
\* when it goes on to create the task
Validate(url, quality) ==
    IF url = "" THEN 400
    ELSE IF quality \notin validQualities THEN 400
    ELSE 200

\* A rejected request: nothing is created.
PostDownloadRejected ==
    \E url \in Urls, quality \in RequestQualities :
        /\ Validate(url, quality) # 200
        /\ UNCHANGED vars

\* The handler from createTask on: createTask, then processVideoAsync up to
\* its await: the update to processing and the promise executor of
\* processVideo (spawn, handlers, timer).
Accepted(url, quality) ==
    LET taskId == issued + 1
        created == createTask(tasks, maxTasks, taskId,
                       [url |-> url, quality |-> quality,
                        type |-> "video", status |-> "pending"], now)
    IN  /\ tasks' = updateTask(created, taskId, ProcessingUpdate, now)
        /\ issued' = taskId
        /\ proc' = [a \in 1..taskId |->
                       IF a = taskId THEN Spawned(url, quality, now) ELSE proc[a]]
        /\ statusLog' = [a \in 1..taskId |->
                            IF a = taskId
                            THEN IF taskId \in DOMAIN created
                                 THEN <<"pending", "processing">>
                                 ELSE <<"pending">>
                            ELSE statusLog[a]]
        /\ finals' = [a \in 1..taskId |-> IF a = taskId THEN <<>> ELSE finals[a]]
        /\ UNCHANGED <<maxTasks, now>>

\* An accepted request.
PostDownload ==
    \E url \in Urls, quality \in RequestQualities :
        /\ Validate(url, quality) = 200
        /\ issued < MaxIds
        /\ Accepted(url, quality)
        /\ UNCHANGED <<reply, client>>

(***************************************************************************)
(* Events of a converter process, in the orders child_process delivers     *)
(* them.  'close' comes once, after the stdio streams have ended: no data  *)
(* and no 'error' follow it.  'error' reports a failed spawn: it comes     *)
(* first, there is no process to write output, and the 'close' that        *)
(* follows carries a nonzero code.  A process that has been sent SIGTERM   *)
(* may still write output, and may close with any code.                    *)
(***************************************************************************)
\* chunks of stdout: whole lines
WholeChunks == { line \o <<NL>> : line \in ProgressLines }

RECURSIVE Total(_, _)
\* the sum of f[1], ..., f[n]
Total(f, n) == IF n = 0 THEN 0 ELSE f[n] + Total(f, n - 1)

\* stdout chunks delivered so far
ChunksDelivered == Total([a \in 1..issued |-> proc[a].chunks], issued)

\* ytDlpProcess.stdout.on('data')
StdoutData(id, chunk) ==
    /\ id \in 1..issued
    /\ ~proc[id].closed
    /\ ~proc[id].errored
    /\ ChunksDelivered < MaxChunks
    /\ LET progressData == proc[id].progressData \o chunk
           values == StdoutCallbacks(progressData)
       IN  /\ proc' = [proc EXCEPT ![id].progressData = progressData,
                                   ![id].calls = @ \o values,
                                   ![id].chunks = @ + 1]
           /\ tasks' = ApplyCallbacks(tasks, id, values, now)
           /\ statusLog' = IF values = <<>> THEN statusLog
                           ELSE Logged(statusLog, tasks, id, "processing")
    /\ UNCHANGED <<maxTasks, issued, now, finals, reply, client>>

\* ytDlpProcess.stderr.on('data')
StderrData(id) ==
    /\ id \in 1..issued
    /\ ~proc[id].closed
    /\ ~proc[id].errored
    /\ Len(proc[id].errorOutput) < MaxErrChunks
    /\ proc' = [proc EXCEPT ![id].errorOutput = Append(@, "boom")]
    /\ UNCHANGED <<tasks, maxTasks, issued, now, statusLog, finals, reply, client>>

\* a close handler that leaves the timer alone
KeepTimeout(timer) == timer

\* clearTimeout(timeout): a timer that has fired is not changed
ClearTimeout(timer) == IF timer = "armed" THEN "cleared" ELSE timer

\* ytDlpProcess.on('close'), both handlers, with a nonzero or null code
CloseFailed(id, code) ==
    /\ id \in 1..issued
    /\ ~proc[id].closed
    /\ code # 0
    /\ Reject(id, [proc[id] EXCEPT !.closed = TRUE, !.code = {code}, !.pc = "done",
                                   !.details = proc[id].errorOutput,
                                   !.timeout = ClearTimeout(@)],
              ExitMsg(code))
    /\ UNCHANGED <<maxTasks, issued, now, reply, client>>

\* ytDlpProcess.on('close'), both handlers, with code 0: the first handler
\* suspends at await fs.stat(outputPath).  artifact is what the process has
\* left at the output path.
CloseZero(id, artifact) ==
    /\ id \in 1..issued
    /\ ~proc[id].closed
    /\ ~proc[id].errored
    /\ proc' = [proc EXCEPT ![id].closed = TRUE, ![id].code = {0}, ![id].pc = "stat",
                            ![id].artifact = artifact,
                            ![id].timeout = ClearTimeout(@)]
    /\ UNCHANGED <<tasks, maxTasks, issued, now, statusLog, finals, reply, client>>

\* fs.stat settles and the close handler goes on
StatDone(id) ==
    /\ id \in 1..issued
    /\ proc[id].pc = "stat"
    /\ LET p == [proc[id] EXCEPT !.pc = "done"]
           verdict == StatVerdict(proc[id].artifact)
       IN  IF verdict = {}
           THEN Resolve(id, p)
           ELSE Reject(id, p, CHOOSE m \in verdict : TRUE)
    /\ UNCHANGED <<maxTasks, issued, now, reply, client>>

\* ytDlpProcess.on('error')
ErrorEvent(id, code) ==
    /\ id \in 1..issued
    /\ ~proc[id].closed
    /\ ~proc[id].errored
    /\ proc[id].chunks = 0
    /\ proc[id].errorOutput = <<>>
    /\ proc[id].timeout = "armed"
    /\ Reject(id, [proc[id] EXCEPT !.errored = TRUE, !.errorCode = {code}],
              ErrorEventMsg(code))
    /\ UNCHANGED <<maxTasks, issued, now, reply, client>>

\* the kill in the callback of a timer that fires again (setInterval)
KillRearmed(p) == [p EXCEPT !.signals = @ + 1]

\* ytDlpProcess.kill('SIGTERM') in the callback of a timer that fires once
Kill(p) == [p EXCEPT !.signals = @ + 1, !.timeout = "fired"]

\* a timer callback that kills the process and leaves the outcome to the
\* close handler
TimeoutKillOnly(id) ==
    /\ id \in 1..issued
    /\ proc[id].timeout = "armed"
    /\ now - proc[id].spawnedAt >= timeoutDelay
    /\ proc' = [proc EXCEPT ![id] = Kill(proc[id])]
    /\ UNCHANGED <<tasks, maxTasks, issued, now, statusLog, finals, reply, client>>

\* a timer callback over a process handle that the runs share: it rejects
\* the promise of its own run and kills the process spawned last
TimeoutLastSpawned(id) ==
    /\ id \in 1..issued
    /\ proc[id].timeout = "armed"
    /\ now - proc[id].spawnedAt >= timeoutDelay
    /\ LET settles == IsPending(proc[id])
           fired == [proc EXCEPT ![id].timeout = "fired",
                                 ![id].promise = IF settles THEN "rejected" ELSE @,
                                 ![id].outcome = IF settles THEN TimeoutMsg ELSE @]
       IN  /\ proc' = [fired EXCEPT ![issued].signals = @ + 1]
           /\ tasks' = IF settles
                       THEN updateTask(tasks, id, FailedUpdate(TimeoutMsg), now)
                       ELSE tasks
           /\ statusLog' = IF settles THEN Logged(statusLog, tasks, id, "failed")
                           ELSE statusLog
           /\ finals' = IF settles THEN [finals EXCEPT ![id] = Append(@, "failed")]
                        ELSE finals
    /\ UNCHANGED <<maxTasks, issued, now, reply, client>>

\* the setTimeout callback, 30 minutes after the spawn
Timeout(id) ==
    /\ id \in 1..issued
    /\ proc[id].timeout = "armed"
    /\ now - proc[id].spawnedAt >= timeoutDelay
    /\ Reject(id, Kill(proc[id]), TimeoutMsg)
    /\ UNCHANGED <<maxTasks, issued, now, reply, client>>

(***************************************************************************)
(* The registry's timer, and the clock                                     *)
(***************************************************************************)
\* the setInterval callback of startCleanupTimer
Sweep ==
    /\ tasks' = [a \in (DOMAIN tasks) \ tasksToDelete(tasks, now) |-> tasks[a]]
    /\ UNCHANGED <<maxTasks, issued, now, proc, statusLog, finals, reply, client>>

Tick ==
    /\ now < MaxTime
    /\ now' = now + 1
    /\ UNCHANGED <<tasks, maxTasks, issued, proc, statusLog, finals, reply, client>>

Next ==
    \/ PostDownloadRejected
    \/ PostDownload
    \/ \E id \in Ids, chunk \in WholeChunks : StdoutData(id, chunk)
    \/ \E id \in Ids, code \in ExitCodes \ {0} : CloseFailed(id, code)
    \/ \E id \in Ids, artifact \in Artifacts : CloseZero(id, artifact)
    \/ \E id \in Ids : StatDone(id)
    \/ \E id \in Ids, code \in ErrorCodes : ErrorEvent(id, code)
    \/ \E id \in Ids : Timeout(id)
    \/ Sweep
    \/ Tick

Spec == Init /\ [][Next]_vars

(***************************************************************************)
(* Properties                                                              *)
(***************************************************************************)
Terminal == {"completed", "failed"}
Live == DOMAIN tasks
Has(task, field) == field \in DOMAIN task

IsPrefix(a, b) == Len(a) <= Len(b) /\ SubSeq(b, 1, Len(a)) = a

\* C1: the status values stored in the registry for a task follow only
\* pending -> processing -> {completed | failed}.
C1_StatusPath ==
    \A id \in 1..issued :
        \/ IsPrefix(statusLog[id], <<"pending", "processing", "completed">>)
        \/ IsPrefix(statusLog[id], <<"pending", "processing", "failed">>)

\* C2: once a task's record is completed or failed, no step changes any
\* field of it; it can only be removed.
C2_TerminalFrozen ==
    [][\A id \in Live :
          (tasks[id].status \in Terminal /\ id \in DOMAIN tasks')
              => tasks'[id] = tasks[id]]_vars

\* C3: while a task is processing, its progress never decreases from one
\* step to the next, so no sequence of polls sees it decrease.
C3_ProgressMonotonic ==
    [][\A id \in Live :
          (/\ id \in DOMAIN tasks'
           /\ tasks[id].status = "processing"
           /\ tasks'[id].status = "processing")
              => tasks'[id].progress >= tasks[id].progress]_vars

\* C4: the progress of every task that has one is an integer in [0,100].
C4_ProgressRange ==
    \A id \in Live :
        Has(tasks[id], "progress") => tasks[id].progress \in 0..100

\* C5: a run settles once and issues exactly one terminal registry update:
\* never two, none while the promise is pending, one from the moment it is
\* settled, and it is settled once the close handlers have finished.
C5_OneTerminalOutcome ==
    \A id \in 1..issued :
        /\ Len(finals[id]) <= 1
        /\ (proc[id].promise = "pending") <=> (finals[id] = <<>>)
        /\ proc[id].promise = "resolved" => finals[id] = <<"completed">>
        /\ proc[id].promise = "rejected" => finals[id] = <<"failed">>
        /\ proc[id].pc = "done" => Len(finals[id]) = 1

\* a run whose timer has fired, which had an 'error' event, and whose close
\* has been handled: three handlers have tried to settle it
C5_Witness ==
    \E id \in 1..issued :
        /\ proc[id].timeout = "fired"
        /\ proc[id].errored
        /\ proc[id].pc = "done"
        /\ Len(finals[id]) = 1

\* C6: when the ceiling elapses on a process that has not exited, the run
\* ends with the timeout outcome; the task, if in the registry, has been
\* made failed by it, and the timeout error stays the one recorded whatever
\* the later close reports.
C6_TimeoutRecorded ==
    \A id \in 1..issued :
        /\ (proc[id].timeout = "fired" /\ ~proc[id].errored)
               => (proc[id].promise = "rejected" /\ proc[id].outcome = TimeoutMsg)
        /\ (proc[id].outcome = TimeoutMsg /\ id \in Live)
               => /\ Len(statusLog[id]) >= 3
                  /\ statusLog[id][3] = "failed"
                  /\ Has(tasks[id], "error")
                  /\ tasks[id].error = TimeoutMsg

\* a task failed by the timeout whose process has closed since
C6_Witness ==
    \E id \in Live :
        /\ proc[id].outcome = TimeoutMsg
        /\ proc[id].closed
        /\ proc[id].pc = "done"
        /\ tasks[id].status = "failed"
        /\ tasks[id].error = TimeoutMsg

\* C7: at most one termination signal is sent to a process, and exactly one
\* once its timer has fired.
C7_OneSignal ==
    \A id \in 1..issued :
        /\ proc[id].signals <= 1
        /\ (proc[id].timeout = "fired") <=> (proc[id].signals = 1)

\* a process signalled once by its timer and closed afterwards
C7_Witness ==
    \E id \in 1..issued :
        /\ proc[id].timeout = "fired"
        /\ proc[id].signals = 1
        /\ proc[id].closed

\* C8: once the close of a process has been handled with its timer not yet
\* fired, the timer is cancelled: in no later state is it armed or fired, has
\* a signal been sent or a timeout outcome been produced, also when an
\* 'error' event came before the close.
C8_TimerCancelled ==
    \A id \in 1..issued :
        proc[id].closed =>
            /\ proc[id].timeout # "armed"
            /\ proc[id].timeout = "cleared"
                   => (proc[id].signals = 0 /\ proc[id].outcome # TimeoutMsg)
            /\ proc[id].timeout = "fired"
                   => (proc[id].signals = 1)

\* a process closed before its ceiling, after an 'error' event, with the
\* ceiling passed since
C8_Witness ==
    \E id \in 1..issued :
        /\ proc[id].closed
        /\ proc[id].errored
        /\ proc[id].timeout = "cleared"
        /\ now - proc[id].spawnedAt >= timeoutDelay

\* the process of id has exited with code 0 leaving no file or an empty one,
\* and the close handler has dealt with it
BadArtifactHandled(id) ==
    /\ proc[id].pc = "done"
    /\ proc[id].code = {0}
    /\ \A size \in proc[id].artifact : size = 0

\* C9 as claimed: exit code 0 with a missing or empty artifact makes the
\* task, if in the registry, failed with the empty-artifact error.
C9_EmptyArtifactFails ==
    \A id \in Live :
        BadArtifactHandled(id)
            => /\ tasks[id].status = "failed"
               /\ tasks[id].error \in {EmptyMsg, NoFileMsg}

\* C9 amended: exit code 0 with a missing or empty artifact, on a run that
\* neither the timeout nor an 'error' event has settled before, makes the
\* task, if in the registry, failed with the empty-artifact error; and with
\* or without an earlier outcome it never makes the task completed.
C9_EmptyArtifactFailsUnsettled ==
    \A id \in 1..issued :
        BadArtifactHandled(id)
            => /\ proc[id].promise = "rejected"
               /\ proc[id].timeout # "fired"
                      => proc[id].outcome \in {EmptyMsg, NoFileMsg}
               /\ id \in Live
                      => /\ tasks[id].status # "completed"
                         /\ proc[id].outcome \in {EmptyMsg, NoFileMsg}
                                => /\ tasks[id].status = "failed"
                                   /\ tasks[id].error = proc[id].outcome

\* a task failed by an empty artifact
C9_Witness ==
    \E id \in Live :
        /\ BadArtifactHandled(id)
        /\ proc[id].outcome = EmptyMsg
        /\ tasks[id].status = "failed"
        /\ tasks[id].error = EmptyMsg

\* C10: a completed task has a filename, its process has exited with code 0
\* and left a file of non-zero size, and the completed update is the one the
\* close handler's resolve led to.
C10_CompletedHasArtifact ==
    \A id \in Live :
        tasks[id].status = "completed"
            => /\ Has(tasks[id], "filename")
               /\ tasks[id].filename = proc[id].filename
               /\ proc[id].promise = "resolved"
               /\ proc[id].code = {0}
               /\ \E size \in proc[id].artifact : size > 0

\* a completed task
C10_Witness ==
    \E id \in Live :
        /\ tasks[id].status = "completed"
        /\ proc[id].pc = "done"

(***************************************************************************)
(* Failure diagnostics: runs that fail.  The processes also write to       *)
(* stderr, and end by a nonzero exit, a failed spawn or the timeout.       *)
(***************************************************************************)
NextDiagnostics ==
    \/ PostDownload
    \/ \E id \in Ids : StderrData(id)
    \/ \E id \in Ids, code \in ExitCodes \ {0} : CloseFailed(id, code)
    \/ \E id \in Ids, code \in ErrorCodes : ErrorEvent(id, code)
    \/ \E id \in Ids : Timeout(id)
    \/ Sweep
    \/ Tick

SpecDiagnostics == Init /\ [][NextDiagnostics]_vars

\* the close of id's process with a nonzero code is what settled its run
FailedByExit(id) ==
    /\ proc[id].closed
    /\ proc[id].code \notin {{}, {0}}
    /\ ~proc[id].errored
    /\ proc[id].timeout # "fired"

\* C11: when the converter process exits with a nonzero code, the task is
\* failed with the process-failure error, and the error on the task record
\* has in it every text the process wrote to stderr.
C11_StderrRecorded ==
    \A id \in Live :
        FailedByExit(id)
            => /\ tasks[id].status = "failed"
               /\ Has(tasks[id], "error")
               /\ \E code \in proc[id].code : tasks[id].error = ExitMsg(code)
               /\ \A i \in 1..Len(proc[id].errorOutput) :
                      Contains(tasks[id].error, proc[id].errorOutput[i])

\* C12: when the spawn fails with ENOENT, the run is rejected with the
\* missing-tool message and the task, if in the registry, is failed with that
\* message, which is not the message of any exit code, whether or not the
\* 'close' that follows the 'error' has been delivered.
C12_MissingToolRecorded ==
    \A id \in 1..issued :
        proc[id].errorCode = {"ENOENT"}
            => /\ proc[id].promise = "rejected"
               /\ proc[id].outcome = MissingToolMsg
               /\ id \in Live
                      => /\ tasks[id].status = "failed"
                         /\ tasks[id].error = MissingToolMsg
                         /\ \A code \in ExitCodes : tasks[id].error # ExitMsg(code)

\* a task failed by ENOENT whose process has closed since
C12_Witness ==
    \E id \in Live :
        /\ proc[id].errorCode = {"ENOENT"}
        /\ proc[id].closed
        /\ proc[id].code = {2}
        /\ tasks[id].error = MissingToolMsg

(***************************************************************************)
(* Quality resolution: processVideo called with any quality token, as a    *)
(* caller other than the validating POST handler may call it.  The step is *)
(* the promise executor up to the spawn; what the process does afterwards  *)
(* is not part of this specification.                                      *)
(***************************************************************************)
ProcessVideo(url, quality) ==
    /\ issued < MaxIds
    /\ issued' = issued + 1
    /\ proc' = [a \in 1..(issued + 1) |->
                   IF a = issued + 1 THEN Spawned(url, quality, now) ELSE proc[a]]
    /\ statusLog' = [a \in 1..(issued + 1) |-> IF a = issued + 1 THEN <<>> ELSE statusLog[a]]
    /\ finals' = [a \in 1..(issued + 1) |-> IF a = issued + 1 THEN <<>> ELSE finals[a]]
    /\ UNCHANGED <<tasks, maxTasks, now, reply, client>>

NextResolver ==
    \/ \E url \in Urls, quality \in QualityTokens : ProcessVideo(url, quality)
    \/ Tick

SpecResolver == Init /\ [][NextResolver]_vars

\* the generic best-within-bound alternative of a defined quality token
BestWithin(quality) ==
    CASE quality = "720p"  -> "best[height<=720]"
      [] quality = "1080p" -> "best[height<=1080]"
      [] quality = "4K"    -> "best[height<=2160]"

\* C19: the selector resolved for a defined quality token is a non-empty
\* chain of alternatives whose last is the generic best-within-bound one, and
\* the selector resolved for any other token is the generic default 'best'.
C19_ResolutionTotal ==
    \A id \in 1..issued :
        LET quality == proc[id].quality
            selector == proc[id].format
        IN  IF quality \in validQualities
            THEN /\ selector.kind = "string"
                 /\ selector.chain # <<>>
                 /\ selector.chain[Len(selector.chain)] = BestWithin(quality)
            ELSE selector = [kind |-> "string", chain |-> <<"best">>]

(***************************************************************************)
(* The registry with room for several tasks: requests, the exits of their  *)
(* processes, the sweep and GET /api/results.                              *)
(***************************************************************************)
InitRegistry ==
    /\ tasks = <<>>
    /\ maxTasks = RegistryMaxTasks
    /\ issued = 0
    /\ now = 0
    /\ proc = <<>>
    /\ statusLog = <<>>
    /\ finals = <<>>
    /\ reply = NoReply
    /\ client = <<>>

RegistryIds == 1..MaxCreated

\* An accepted request.
PostDownloadMany ==
    \E url \in Urls, quality \in RequestQualities :
        /\ Validate(url, quality) = 200
        /\ issued < MaxCreated
        /\ Accepted(url, quality)
        /\ UNCHANGED <<reply, client>>

\* the values of the limit parameter
Limits == {0, 1, 2, DefaultLimit}

\* GET /api/results: res.json(taskManager.getRecentResults()); the registry
\* is only read.
GetResults == UNCHANGED vars

NextRegistry ==
    \/ PostDownloadMany
    \/ \E id \in RegistryIds, code \in ExitCodes \ {0} : CloseFailed(id, code)
    \/ \E id \in RegistryIds : CloseZero(id, {5})
    \/ \E id \in RegistryIds : StatDone(id)
    \/ \E id \in RegistryIds : Timeout(id)
    \/ Sweep
    \/ Tick
    \/ GetResults

SpecRegistry == InitRegistry /\ [][NextRegistry]_vars

Min(a, b) == IF a < b THEN a ELSE b
Size(ts) == Cardinality(DOMAIN ts)

\* the terminal update of id's run was issued and did not reach the
\* registry: id was absent when updateTask was called
UpdatedWhileAbsent(id) ==
    /\ finals[id] # <<>>
    /\ \A i \in 1..Len(statusLog[id]) : statusLog[id][i] \notin Terminal

\* C13: updateTask on an id absent from the registry (evicted, swept, or
\* never created) returns false and leaves the registry as it is: no entry
\* for the id, every other entry unchanged.
C13_AbsentUpdateRejected ==
    /\ \A id \in (1..(issued + 1)) \ Live :
           /\ updateTaskResult(tasks, id) = FALSE
           /\ updateTask(tasks, id, ProcessingUpdate, now) = tasks
           /\ updateTask(tasks, id, FailedUpdate(TimeoutMsg), now) = tasks
           /\ updateTask(tasks, id, CompletedUpdate(Filename(now, "https://youtu.be/a")), now)
                  = tasks
    /\ \A id \in 1..issued : UpdatedWhileAbsent(id) => id \notin Live

\* a run has ended after its task had left a registry that holds others
C13_Witness ==
    \E id \in 1..issued :
        /\ UpdatedWhileAbsent(id)
        /\ id \notin Live
        /\ Live # {}

\* C14: a step that creates a task leaves min(n + 1, maxTasks) entries where
\* there were n, no other step adds an entry, and the registry never holds
\* more than maxTasks entries; so after maxTasks + k creations without a
\* sweep it holds exactly maxTasks.
C14_BoundedAfterCreate ==
    [][/\ issued' # issued => Size(tasks') = Min(Size(tasks) + 1, maxTasks)
       /\ issued' = issued => Size(tasks') <= Size(tasks)
       /\ Size(tasks') <= maxTasks']_vars

\* more tasks have been created than the registry holds, and it is full
C14_Witness ==
    /\ issued > maxTasks
    /\ Size(tasks) = maxTasks

\* C15: the entries a creating step evicts are the oldest by creation time:
\* no entry that stays, the new one included, was created strictly earlier
\* than an evicted one, whatever the status of either.
C15_OldestEvicted ==
    [][issued' # issued =>
          \A r \in (DOMAIN tasks) \ (DOMAIN tasks'), k \in DOMAIN tasks' :
              tasks'[k].createdAt >= tasks[r].createdAt]_vars

\* a task evicted while processing (its run has neither settled nor timed
\* out), with a later task that has completed still in the registry
C15_Witness ==
    \E r \in (1..issued) \ Live, k \in Live :
        /\ proc[r].promise = "pending"
        /\ tasks[k].status = "completed"
        /\ k > r

\* C16: a step that removes entries without creating one, a run of the
\* sweep, removes exactly the completed or failed entries whose updatedAt
\* is more than maxAge ago; every other entry stays as it is.
C16_SweepExact ==
    [][(issued' = issued /\ DOMAIN tasks' # DOMAIN tasks) =>
          /\ (DOMAIN tasks) \ (DOMAIN tasks')
                 = { a \in DOMAIN tasks :
                       /\ tasks[a].status \in Terminal
                       /\ now - tasks[a].updatedAt > maxAge }
          /\ \A a \in DOMAIN tasks' : a \in DOMAIN tasks /\ tasks'[a] = tasks[a]]_vars

\* no eviction has happened, a terminal task has been swept, and a terminal
\* task exactly maxAge old is still there
C16_Witness ==
    /\ issued <= maxTasks
    /\ \E r \in (1..issued) \ Live, k \in Live :
           /\ tasks[k].status \in Terminal
           /\ now - tasks[k].updatedAt = maxAge

\* C17: an entry whose status is pending or processing is removed only by a
\* step that creates a task, that is by eviction, never by the sweep.
C17_SweepSparesActive ==
    [][\A a \in (DOMAIN tasks) \ (DOMAIN tasks') :
          tasks[a].status \in {"pending", "processing"} => issued' # issued]_vars

\* no eviction has happened, a terminal task has been swept, and a
\* processing task older than maxAge by both of its times is still there
C17_Witness ==
    /\ issued <= maxTasks
    /\ \E r \in (1..issued) \ Live, k \in Live :
           /\ tasks[k].status = "processing"
           /\ now - tasks[k].updatedAt > maxAge
           /\ now - tasks[k].createdAt > maxAge

\* C20: for every limit, getRecentResults(limit) is made of completed and
\* failed tasks of the registry, each once, ordered by updatedAt descending;
\* it has min(limit, number of such tasks) entries, and no such task left
\* out was updated later than one in it.
C20_RecentResults ==
    \A limit \in Limits :
        LET results == getRecentResults(tasks, limit)
            done == { a \in Live : tasks[a].status \in Terminal }
            listed == { results[i].taskId : i \in 1..Len(results) }
        IN  /\ Len(results) <= limit
            /\ Len(results) = Min(limit, Cardinality(done))
            /\ listed \subseteq done
            /\ Cardinality(listed) = Len(results)
            /\ \A i \in 1..Len(results) :
                   /\ results[i].status \in Terminal
                   /\ results[i].status = tasks[results[i].taskId].status
                   /\ results[i].updatedAt = tasks[results[i].taskId].updatedAt
            /\ \A i, j \in 1..Len(results) :
                   i < j => results[i].updatedAt >= results[j].updatedAt
            /\ \A a \in done \ listed, i \in 1..Len(results) :
                   results[i].updatedAt >= tasks[a].updatedAt

\* a completed and a failed task updated at different times, so that limit 1
\* has to pick the later one
C20_Witness ==
    \E a, b \in Live :
        /\ tasks[a].status = "completed"
        /\ tasks[b].status = "failed"
        /\ tasks[a].updatedAt > tasks[b].updatedAt
        /\ a < b
        /\ Len(getRecentResults(tasks, 1)) = 1
        /\ getRecentResults(tasks, 1)[1].taskId = a

(***************************************************************************)
(* The accepted POST /api/download statement by statement: createTask      *)
(* returns, then processVideoAsync starts.  No other handler runs between  *)
(* the two; the clock may advance at any point, also between the two       *)
(* readings createTask takes.                                              *)
(***************************************************************************)
\* no request handler is between its two steps
Idle == DOMAIN proc = 1..issued

\* const taskId = taskManager.createTask({...}) has returned
CreateTaskReturns ==
    \E url \in Urls, quality \in RequestQualities, t2 \in {now, now + 1} :
        /\ Validate(url, quality) = 200
        /\ Idle
        /\ issued < MaxIds
        /\ t2 <= MaxTime
        /\ tasks' = createTaskAt(tasks, maxTasks, issued + 1,
                                 [url |-> url, quality |-> quality,
                                  type |-> "video", status |-> "pending"], now, t2)
        /\ now' = t2
        /\ issued' = issued + 1
        /\ statusLog' = [a \in 1..(issued + 1) |->
                            IF a = issued + 1 THEN <<"pending">> ELSE statusLog[a]]
        /\ finals' = [a \in 1..(issued + 1) |-> IF a = issued + 1 THEN <<>> ELSE finals[a]]
        /\ UNCHANGED <<maxTasks, proc, reply, client>>

\* processVideoAsync(taskId, url, quality) up to its await: the update to
\* processing and the promise executor of processVideo
ProcessVideoAsyncStarts ==
    /\ ~Idle
    /\ LET taskId == issued
       IN  /\ tasks' = updateTask(tasks, taskId, ProcessingUpdate, now)
           /\ proc' = [a \in 1..taskId |->
                          IF a = taskId
                          THEN Spawned(tasks[taskId].url, tasks[taskId].quality, now)
                          ELSE proc[a]]
           /\ statusLog' = Logged(statusLog, tasks, taskId, "processing")
    /\ UNCHANGED <<maxTasks, issued, now, finals, reply, client>>

NextCreate ==
    \/ CreateTaskReturns
    \/ ProcessVideoAsyncStarts
    \/ Idle /\ \E id \in Ids, code \in ExitCodes \ {0} : CloseFailed(id, code)
    \/ Idle /\ \E id \in Ids, artifact \in Artifacts : CloseZero(id, artifact)
    \/ Idle /\ \E id \in Ids : StatDone(id)
    \/ Idle /\ Sweep
    \/ Tick

SpecCreate == Init /\ [][NextCreate]_vars

\* createTask has returned id and processVideoAsync has not been called
AtReturn(id) == id \in 1..issued /\ id \notin DOMAIN proc

\* C21 as claimed: when createTask returns, the record is in the registry
\* with status pending and equal createdAt and updatedAt, and no processing
\* of it has begun.
C21_CreateReturnsPending ==
    \A id \in Ids :
        AtReturn(id)
            => /\ id \in Live
               /\ tasks[id].status = "pending"
               /\ tasks[id].createdAt = tasks[id].updatedAt
               /\ statusLog[id] = <<"pending">>

\* C21 amended: when createTask returns, the record is in the registry with
\* status pending, no progress, and createdAt and updatedAt two successive
\* readings of the clock taken during the call; no processing of it has
\* begun, and the store of processing and the spawn come after.
C21_CreateReturnsPendingStamped ==
    /\ \A id \in Ids :
           AtReturn(id)
               => /\ id \in Live
                  /\ tasks[id].status = "pending"
                  /\ ~Has(tasks[id], "progress")
                  /\ tasks[id].createdAt <= tasks[id].updatedAt
                  /\ tasks[id].updatedAt <= tasks[id].createdAt + 1
                  /\ tasks[id].updatedAt <= now
                  /\ statusLog[id] = <<"pending">>
    /\ \A id \in DOMAIN proc :
           /\ Len(statusLog[id]) >= 2
           /\ statusLog[id][1] = "pending"
           /\ statusLog[id][2] = "processing"

\* createTask has returned a record whose two timestamps differ
C21_Witness ==
    \E id \in Ids :
        /\ AtReturn(id)
        /\ tasks[id].status = "pending"
        /\ tasks[id].createdAt < tasks[id].updatedAt

(***************************************************************************)
(* The request handlers with their responses: POST /api/download and       *)
(* GET /api/task/:taskId, over the runs of the processes.                  *)
(***************************************************************************)
SpawnThrowMsg == "spawn ENOMEM"

\* the body of the 400 response of POST /api/download
ValidationError(url, quality) ==
    IF url = "" THEN "URL is required" ELSE "Invalid quality"

\* POST /api/download, rejected
PostDownloadRejectedReply ==
    \E url \in Urls, quality \in RequestQualities :
        /\ Validate(url, quality) # 200
        /\ reply' = [status |-> 400, error |-> ValidationError(url, quality)]
        /\ UNCHANGED client
        /\ UNCHANGED <<tasks, maxTasks, issued, now, proc, statusLog, finals>>

\* the response to an accepted POST /api/download that has created taskId
CreatedReply(taskId) == [status |-> 200, taskId |-> taskId, taskStatus |-> "pending"]

\* POST /api/download, accepted
PostDownloadReply ==
    \E url \in Urls, quality \in RequestQualities :
        /\ Validate(url, quality) = 200
        /\ issued < MaxIds
        /\ Accepted(url, quality)
        /\ reply' = CreatedReply(issued + 1)
        /\ UNCHANGED client

\* the closure of processVideo when spawn has thrown: the executor's catch
\* has rejected the promise; there is no process, no handler and no timer
SpawnThrown(url, quality, t) ==
    [Spawned(url, quality, t) EXCEPT !.closed = TRUE, !.pc = "done",
                                     !.timeout = "cleared",
                                     !.promise = "rejected",
                                     !.outcome = SpawnThrowMsg]

\* POST /api/download, accepted, with spawn throwing: the rejection reaches
\* processVideoAsync's catch as a microtask of the handler's step
PostDownloadSpawnThrows ==
    \E url \in Urls, quality \in RequestQualities :
        /\ Validate(url, quality) = 200
        /\ issued < MaxIds
        /\ LET taskId == issued + 1
               created == createTask(tasks, maxTasks, taskId,
                              [url |-> url, quality |-> quality,
                               type |-> "video", status |-> "pending"], now)
               started == updateTask(created, taskId, ProcessingUpdate, now)
           IN  /\ tasks' = updateTask(started, taskId, FailedUpdate(SpawnThrowMsg), now)
               /\ issued' = taskId
               /\ proc' = [a \in 1..taskId |->
                              IF a = taskId THEN SpawnThrown(url, quality, now) ELSE proc[a]]
               /\ statusLog' = [a \in 1..taskId |->
                                   IF a = taskId
                                   THEN <<"pending", "processing", "failed">>
                                   ELSE statusLog[a]]
               /\ finals' = [a \in 1..taskId |->
                                IF a = taskId THEN <<"failed">> ELSE finals[a]]
               /\ reply' = CreatedReply(taskId)
               /\ UNCHANGED client
        /\ UNCHANGED <<maxTasks, now>>

\* the taskId parameter of GET /api/task/:taskId: an id createTask has
\* returned or may return, or one it never returns
PolledIds == 0..MaxIds

\* GET /api/task/:taskId
GetTask(taskId) ==
    /\ reply' = IF taskId \in DOMAIN tasks
                THEN [status |-> 200, task |-> tasks[taskId]]
                ELSE [status |-> 404, error |-> "Task not found"]
    /\ UNCHANGED <<tasks, maxTasks, issued, now, proc, statusLog, finals, client>>

NextRequests ==
    \/ PostDownloadRejectedReply
    \/ PostDownloadReply
    \/ PostDownloadSpawnThrows
    \/ \E taskId \in PolledIds : GetTask(taskId)
    \/ \E id \in Ids, code \in ExitCodes \ {0} : CloseFailed(id, code)
    \/ \E id \in Ids, artifact \in Artifacts : CloseZero(id, artifact)
    \/ \E id \in Ids : StatDone(id)
    \/ \E id \in Ids, code \in ErrorCodes : ErrorEvent(id, code)
    \/ \E id \in Ids : Timeout(id)
    \/ Sweep
    \/ Tick

SpecRequests == Init /\ [][NextRequests]_vars

\* C22: a request with a missing url or an unrecognized quality token is
\* answered 400 with the registry, the processes and the ids as they were;
\* and every step that creates a task creates it, and spawns its process,
\* for a url that is present and a quality among 720p, 1080p and 4K.
C22_RejectedBeforeCreate ==
    [][/\ (reply' # reply /\ reply'.status = 400)
           => UNCHANGED <<tasks, maxTasks, issued, proc, statusLog, finals>>
       /\ issued' # issued
           => /\ reply'.status = 200
              /\ proc'[issued'].url # ""
              /\ proc'[issued'].quality \in {"720p", "1080p", "4K"}
              /\ issued' \in DOMAIN tasks'
                     => /\ tasks'[issued'].url # ""
                        /\ tasks'[issued'].quality \in {"720p", "1080p", "4K"}]_vars

\* a request has been rejected while a task was in the registry and its
\* process running
C22_Witness ==
    /\ reply.status = 400
    /\ \E id \in Live : proc[id].pc = "running" /\ tasks[id].status = "processing"

\* C23: a step that creates a task answers 200 with the task's id, also
\* when the spawn throws; a step in which a run fails answers nothing and
\* stores status failed with the failure's message as the error of the
\* task, if it is in the registry.
C23_FailuresOnRecord ==
    [][/\ issued' # issued
           => /\ reply' = [status |-> 200, taskId |-> issued', taskStatus |-> "pending"]
              /\ (proc'[issued'].promise = "rejected" /\ issued' \in DOMAIN tasks')
                     => /\ tasks'[issued'].status = "failed"
                        /\ Has(tasks'[issued'], "error")
                        /\ tasks'[issued'].error = proc'[issued'].outcome
       /\ \A id \in 1..issued :
              (proc[id].promise = "pending" /\ proc'[id].promise = "rejected")
                  => /\ reply' = reply
                     /\ proc'[id].outcome \in
                            {SpawnThrowMsg, MissingToolMsg, ProcessErrorMsg, TimeoutMsg,
                             EmptyMsg, NoFileMsg, ExitMsg(2)}
                     /\ id \in DOMAIN tasks
                            => /\ id \in DOMAIN tasks'
                               /\ tasks'[id].status = "failed"
                               /\ Has(tasks'[id], "error")
                               /\ tasks'[id].error = proc'[id].outcome]_vars

\* the creator of a task was answered 200 with status pending although the
\* spawn had thrown, and a poll of the task has shown it failed
C23_Witness ==
    \E id \in Live :
        /\ proc[id].outcome = SpawnThrowMsg
        /\ reply.status = 200
        /\ Has(reply, "task")
        /\ reply.task.taskId = id
        /\ reply.task.status = "failed"
        /\ reply.task.error = SpawnThrowMsg

\* C23 as stated, for every failing run whether or not its task is still in
\* the registry: the step in which a run fails leaves the task on record
\* with status failed and the failure's message.
C23_EveryFailureOnRecord ==
    [][\A id \in 1..issued :
          (proc[id].promise = "pending" /\ proc'[id].promise = "rejected")
              => /\ reply' = reply
                 /\ id \in DOMAIN tasks'
                 /\ tasks'[id].status = "failed"
                 /\ Has(tasks'[id], "error")
                 /\ tasks'[id].error = proc'[id].outcome]_vars

(***************************************************************************)
(* Concurrent runs writing to a registry that holds several tasks: the     *)
(* registry of InitRegistry with the stdout, close and stat events of the  *)
(* runs, the sweep and the clock.                                          *)
(***************************************************************************)
NextWriters ==
    \/ PostDownloadMany
    \/ \E id \in RegistryIds, chunk \in WholeChunks : StdoutData(id, chunk)
    \/ \E id \in RegistryIds, code \in ExitCodes \ {0} : CloseFailed(id, code)
    \/ \E id \in RegistryIds : CloseZero(id, {5})
    \/ \E id \in RegistryIds : StatDone(id)
    \/ Sweep
    \/ Tick

SpecWriters == InitRegistry /\ [][NextWriters]_vars

\* the run of id, as processVideoAsync started it
RunOf(p) == <<p.url, p.quality, p.filename, p.spawnedAt>>

\* C24: one run is started for each created task and none is started again;
\* a record in the registry changes only in a step of the run of its own id,
\* in which no other run takes part and no task is created; and after the
\* step the record shows the update that run issued last: the status it
\* stored last and, for progress lines, the progress of the last line.
C24_SingleWriter ==
    [][/\ issued' \in {issued, issued + 1}
       /\ DOMAIN proc' = 1..issued'
       /\ \A id \in 1..issued :
              /\ RunOf(proc'[id]) = RunOf(proc[id])
              /\ (id \in DOMAIN tasks /\ id \in DOMAIN tasks' /\ tasks'[id] # tasks[id])
                     => /\ proc'[id] # proc[id]
                        /\ \A other \in (1..issued) \ {id} : proc'[other] = proc[other]
                        /\ issued' = issued
                        /\ tasks'[id].status = statusLog'[id][Len(statusLog'[id])]
                        /\ proc'[id].progressData # proc[id].progressData
                               => LET values == StdoutCallbacks(proc'[id].progressData)
                                  IN  /\ values # <<>>
                                      /\ tasks'[id].status = "processing"
                                      /\ tasks'[id].progress
                                             = MathRound(values[Len(values)])]_vars

\* two runs are writing at once, each to the record of its own task
C24_Witness ==
    \E a, b \in Live :
        /\ a # b
        /\ proc[a].pc = "running" /\ proc[b].pc = "running"
        /\ proc[a].chunks > 0 /\ proc[b].chunks > 0
        /\ tasks[a].status = "processing" /\ tasks[b].status = "processing"
        /\ tasks[a].progress # tasks[b].progress
        /\ tasks[a].url = proc[a].url /\ tasks[b].url = proc[b].url

\* C25: no two runs are given the same output path, the runs of two requests
\* for one URL within one reading of the clock included.
C25_DistinctOutputPaths ==
    \A a, b \in 1..issued : a # b => proc[a].filename # proc[b].filename

\* C26: a step that removes a task from the registry leaves its process as
\* it is; while the task is absent every update of its run is dropped
\* (updateTask returns false and the registry stays as it is) and the run
\* goes on by its own events only; and the id is never in the registry
\* again.
C26_EvictedRunDropped ==
    [][\A id \in 1..issued :
          /\ (id \in DOMAIN tasks /\ id \notin DOMAIN tasks')
                 => proc'[id] = proc[id]
          /\ id \notin DOMAIN tasks
                 => /\ id \notin DOMAIN tasks'
                    /\ ~updateTaskResult(tasks, id)
                    /\ proc'[id] # proc[id]
                           => /\ tasks' = tasks
                              /\ statusLog' = statusLog
                              /\ \A other \in (1..issued) \ {id} :
                                     proc'[other] = proc[other]]_vars

\* a task was evicted while its process was running; the process went on
\* to write progress lines and to succeed, and its completion was dropped
C26_Witness ==
    \E id \in (1..issued) \ Live :
        /\ proc[id].promise = "resolved"
        /\ proc[id].pc = "done"
        /\ proc[id].chunks > 0
        /\ UpdatedWhileAbsent(id)
        /\ Live # {}

\* C27: a process is signalled only in the step in which the timer of its
\* own run fires, armed until then and with the ceiling reached, and once
\* in that step; the step creates no task, removes none and touches no
\* other process.  A process closes only in a step of its own run, which
\* likewise touches no other process.
C27_OnlyTimeoutSignals ==
    [][\A id \in 1..issued :
          /\ proc'[id].signals # proc[id].signals
                 => /\ proc[id].timeout = "armed"
                    /\ proc'[id].timeout = "fired"
                    /\ now - proc[id].spawnedAt >= timeoutDelay
                    /\ proc'[id].signals = proc[id].signals + 1
                    /\ issued' = issued
                    /\ DOMAIN tasks' = DOMAIN tasks
                    /\ \A other \in (1..issued) \ {id} : proc'[other] = proc[other]
          /\ proc'[id].closed # proc[id].closed
                 => /\ issued' = issued
                    /\ DOMAIN tasks' = DOMAIN tasks
                    /\ \A other \in (1..issued) \ {id} : proc'[other] = proc[other]
          /\ proc[id].timeout # "fired" => proc[id].signals = 0]_vars

\* one process has been signalled by its timer while a process spawned
\* after it runs unsignalled and the task of a third run has been evicted
C27_Witness ==
    \E a, b \in 1..issued :
        /\ a < b
        /\ proc[a].signals = 1 /\ proc[a].timeout = "fired"
        /\ proc[b].signals = 0 /\ proc[b].pc = "running"
        /\ (1..issued) \ Live # {}

\* C28: a task record carries an error only if its status is failed.
C28_ErrorOnlyOnFailed ==
    \A id \in Live : Has(tasks[id], "error") => tasks[id].status = "failed"

\* C29: a task record carries a filename or a download URL only if its
\* status is completed, and then they are those of its run's output.
C29_FilenameOnlyOnCompleted ==
    \A id \in Live :
        (Has(tasks[id], "filename") \/ Has(tasks[id], "downloadUrl"))
            => /\ tasks[id].status = "completed"
               /\ tasks[id].filename = proc[id].filename
               /\ tasks[id].downloadUrl = <<"/api/download/", proc[id].filename>>

\* a completed record with its filename, and before it a failed run whose
\* record never had one
C29_Witness ==
    /\ \E id \in Live :
           /\ tasks[id].status = "completed"
           /\ Has(tasks[id], "filename")
           /\ tasks[id].filename = proc[id].filename
    /\ \E id \in 1..issued : proc[id].promise = "rejected"

\* id's record goes from a status that is not terminal to status s
Becomes(id, s) ==
    /\ id \in DOMAIN tasks
    /\ id \in DOMAIN tasks'
    /\ tasks[id].status \notin Terminal
    /\ tasks'[id].status = s

\* C30: the transition of a task to completed or to failed does not change
\* the progress stored for it.
C30_ProgressRetained ==
    [][\A id \in 1..issued :
          (Becomes(id, "completed") \/ Becomes(id, "failed"))
              => tasks'[id].progress = tasks[id].progress]_vars

\* C30, amended: the transition to failed does not change the progress
\* stored for the task, and the transition to completed stores 100.
C30_ProgressRetainedOnFailure ==
    [][\A id \in 1..issued :
          /\ Becomes(id, "failed") => tasks'[id].progress = tasks[id].progress
          /\ Becomes(id, "completed") => tasks'[id].progress = 100]_vars

\* a task failed after a progress line had stored 30 for it, and its
\* record still shows 30
C30_Witness ==
    \E id \in Live :
        /\ tasks[id].status = "failed"
        /\ statusLog[id] = <<"pending", "processing", "failed">>
        /\ proc[id].chunks > 0
        /\ tasks[id].progress = 30

(***************************************************************************)
(* TaskManager called directly: createTask, updateTask with the updates of  *)
(* processVideoAsync and with updates that name updatedAt themselves, for   *)
(* present and absent ids, the sweep and the clock.                        *)
(***************************************************************************)
\* the updates argument of updateTask
CallerUpdates ==
    { ProcessingUpdate,
      [status |-> "processing", progress |-> 30],
      FailedUpdate(TimeoutMsg),
      [status |-> "processing", updatedAt |-> 0],
      [progress |-> 50, updatedAt |-> 9] }

\* taskManager.createTask({url, quality, type, status})
CreateTaskCall ==
    \E t2 \in {now, now + 1} :
        /\ issued < MaxCreated
        /\ t2 <= MaxTime
        /\ tasks' = createTaskAt(tasks, maxTasks, issued + 1,
                                 [url |-> "https://youtu.be/a", quality |-> "720p",
                                  type |-> "video", status |-> "pending"], now, t2)
        /\ now' = t2
        /\ issued' = issued + 1
        /\ UNCHANGED <<maxTasks, proc, statusLog, finals, reply, client>>

\* taskManager.updateTask(taskId, updates)
UpdateTaskCall(taskId, updates) ==
    /\ tasks' = updateTask(tasks, taskId, updates, now)
    /\ UNCHANGED <<maxTasks, issued, now, proc, statusLog, finals, reply, client>>

NextManager ==
    \/ CreateTaskCall
    \/ \E taskId \in 0..MaxCreated, updates \in CallerUpdates :
           UpdateTaskCall(taskId, updates)
    \/ Sweep
    \/ Tick

SpecManager == InitRegistry /\ [][NextManager]_vars

\* C31: every record has createdAt <= updatedAt; the updatedAt of a record
\* never decreases; and a step that changes a record leaves its updatedAt at
\* the time of the step, whatever updatedAt the caller's updates name.
C31_UpdatedAtAdvances ==
    [][/\ \A id \in DOMAIN tasks' : tasks'[id].createdAt <= tasks'[id].updatedAt
       /\ \A id \in (DOMAIN tasks) \cap (DOMAIN tasks') :
              /\ tasks'[id].updatedAt >= tasks[id].updatedAt
              /\ tasks'[id] # tasks[id] => tasks'[id].updatedAt = now']_vars

\* a record updated, after its creation, by updates that named 9 as
\* updatedAt: it has their progress and the time of the call
C31_Witness ==
    \E id \in DOMAIN tasks :
        /\ Has(tasks[id], "progress")
        /\ tasks[id].progress = 50
        /\ tasks[id].createdAt < tasks[id].updatedAt
        /\ tasks[id].updatedAt = now

\* C32: every record in the registry has the id createTask returned for it
\* and the url, the quality, the type and the createdAt that createTask
\* stored, whatever updates its run has issued since.
C32_InputsImmutable ==
    \A id \in Live :
        /\ tasks[id].taskId = id
        /\ tasks[id].url = proc[id].url
        /\ tasks[id].quality = proc[id].quality
        /\ tasks[id].type = "video"
        /\ tasks[id].createdAt = proc[id].spawnedAt

\* a record that has been through the processing, progress and completion
\* updates, at a later time than its creation
C32_Witness ==
    \E id \in Live :
        /\ statusLog[id] = <<"pending", "processing", "completed">>
        /\ proc[id].chunks > 0
        /\ tasks[id].createdAt < tasks[id].updatedAt
        /\ tasks[id].url = "https://youtu.be/a"

(***************************************************************************)
(* Failing runs side by side in a registry that holds several tasks:       *)
(* progress lines, spawn failures, nonzero exits and timeouts.             *)
(***************************************************************************)
\* a chunk of stdout: the line that reports 30.4 percent
ProgressChunk == <<LBrace, Members("downloading", Num(304)), RBrace, NL>>

NextFailures ==
    \/ PostDownloadMany
    \/ \E id \in RegistryIds : StdoutData(id, ProgressChunk)
    \/ \E id \in RegistryIds, code \in ExitCodes \ {0} : CloseFailed(id, code)
    \/ \E id \in RegistryIds, code \in ErrorCodes : ErrorEvent(id, code)
    \/ \E id \in RegistryIds : Timeout(id)
    \/ Tick

SpecFailures == InitRegistry /\ [][NextFailures]_vars

\* C33: a step of one task's process (a progress line, a spawn failure, a
\* nonzero exit, a timeout) leaves the record of every other task in the
\* registry, with each of its fields, as it was.
C33_FailureScoped ==
    [][\A id \in 1..issued :
          proc'[id] # proc[id]
              => \A other \in (DOMAIN tasks) \ {id} :
                     /\ other \in DOMAIN tasks'
                     /\ tasks'[other] = tasks[other]]_vars

\* one task has failed while another, created before the failure, is still
\* processing with the progress its own run stored
C33_Witness ==
    \E a, b \in Live :
        /\ a # b
        /\ tasks[a].status = "failed"
        /\ Has(tasks[a], "error")
        /\ tasks[b].status = "processing"
        /\ ~Has(tasks[b], "error")
        /\ tasks[b].createdAt < tasks[a].updatedAt
        /\ proc[b].chunks > 0
        /\ tasks[b].progress = 30

(***************************************************************************)
(* The stdout stream chunk by chunk: lines that arrive whole and lines     *)
(* split between two chunks, progress lines of every kind and lines that   *)
(* are not JSON.                                                           *)
(***************************************************************************)
\* a line of text that is not JSON
TextLine == <<Char("W"), Char("A"), Char("R"), Char("N")>>

\* the progress objects of the stream: downloading at 30.4, at 70 and at 0
\* percent, downloading with a percent that is not a number, and finished
StreamLines ==
    { <<LBrace, Members("downloading", Num(304)), RBrace>>,
      <<LBrace, Members("downloading", Num(700)), RBrace>>,
      <<LBrace, Members("downloading", Num(0)), RBrace>>,
      <<LBrace, Members("downloading", [kind |-> "text"]), RBrace>>,
      <<LBrace, Members("finished", Num(1000)), RBrace>>,
      TextLine }

\* the two parts of a line cut after its first k characters, the newline
\* at the end of the second
Cuts(line) ==
    { <<SubSeq(line, 1, k), SubSeq(line, k + 1, Len(line)) \o <<NL>>>> :
          k \in 1..(Len(line) - 1) }

\* the chunks a pipe may deliver: whole lines, and the first and second
\* parts of the lines cut in two
StreamChunks ==
    { line \o <<NL>> : line \in StreamLines }
        \cup UNION { {cut[1], cut[2]} : cut \in UNION { Cuts(line) : line \in StreamLines } }

NextStream ==
    \/ PostDownload
    \/ \E id \in Ids, chunk \in StreamChunks : StdoutData(id, chunk)
    \/ \E id \in Ids, code \in ExitCodes \ {0} : CloseFailed(id, code)
    \/ Tick

SpecStream == Init /\ [][NextStream]_vars

\* the pieces the stdout handler iterates over: progressData.split('\n')
Pieces(progressData) == Split(progressData, NL)

\* the pieces the handler hands to JSON.parse: those with line.trim() truthy
Attempted(progressData) ==
    { i \in 1..Len(Pieces(progressData)) : Pieces(progressData)[i] # <<>> }

\* the pieces the handler reports as output of the process (console.log in
\* the catch of JSON.parse)
Reported(progressData) ==
    { i \in Attempted(progressData) : JSONParse(Pieces(progressData)[i]) = {} }

\* C34: after every chunk, the piece of the buffer after its last newline,
\* a line whose end has not arrived, is neither decoded nor reported as
\* diagnostic text.
C34_PartialLineBuffered ==
    \A id \in 1..issued :
        proc[id].chunks > 0
            => LET last == Len(Pieces(proc[id].progressData))
               IN  /\ last \notin Attempted(proc[id].progressData)
                   /\ last \notin Reported(proc[id].progressData)

\* C35: every complete line of the buffer that parses, has status
\* downloading and a number from 0 to 100 as percent, 0 included, has had
\* that number handed to the progress callback; and a line that does not
\* parse hands it nothing.
C35_ProgressEmitted ==
    \A id \in 1..issued :
        LET pieces == Pieces(proc[id].progressData)
        IN  \A i \in 1..(Len(pieces) - 1) :
                LET parsed == JSONParse(pieces[i])
                IN  IF parsed = {}
                    THEN LineProgress(pieces[i]) = <<>>
                    ELSE \A o \in parsed :
                             (/\ o.status = "downloading"
                              /\ o.percent.kind = "num"
                              /\ o.percent.v >= 0
                              /\ o.percent.v <= 1000)
                                 => \E k \in 1..Len(proc[id].calls) :
                                        proc[id].calls[k] = o.percent.v

\* C36: over the whole run the progress callback has been called once for
\* each progress line of the buffer, in the order of the lines, however many
\* chunks have arrived since.
C36_EachLineOnce ==
    \A id \in 1..issued :
        proc[id].calls = Emitted(Pieces(proc[id].progressData))

\* C37: right after createTask has returned an id, getTask of that id
\* returns the task createTask stored, pending and stamped with the time of
\* the call, whatever the registry held and also when tasks in it have the
\* same createdAt.
C37_CreatedSurvivesEviction ==
    [][issued' # issued
          => /\ getTask(tasks', issued') # {}
             /\ \A task \in getTask(tasks', issued') :
                    /\ task.taskId = issued'
                    /\ task.status = "pending"
                    /\ task.createdAt = now
                    /\ task.updatedAt = now'
             /\ Size(tasks') <= maxTasks]_vars

\* the registry was full and createTask evicted a task, all within one
\* reading of the clock: the new task is in the registry next to an older
\* one that has the same createdAt
C37_Witness ==
    /\ issued = MaxCreated
    /\ now = 0
    /\ Size(tasks) = maxTasks
    /\ getTask(tasks, issued) # {}
    /\ \E a \in DOMAIN tasks :
           a # issued /\ tasks[a].createdAt = tasks[issued].createdAt
    /\ \E a \in 1..issued : getTask(tasks, a) = {}

\* C38, the state every fair run must end in: once the process of a task in
\* the registry has closed and its last handler has run, so that no event
\* of the run is left to come, the task's status is completed or failed.
C38_FinishedRunIsTerminal ==
    \A id \in Live :
        (proc[id].closed /\ proc[id].pc = "done" /\ proc[id].promise # "pending")
            => tasks[id].status \in Terminal

(***************************************************************************)
(* DownloadForm: handleSubmit and pollTaskStatus against the video         *)
(* backend.  A polling loop has getTaskStatus requests outstanding and     *)
(* setTimeout timers armed; a request is answered by GET /api/task/:taskId *)
(* or fails on the way.                                                    *)
(***************************************************************************)
\* polls of one task
MaxPolls == 3

\* the delay of setTimeout(() => pollTaskStatus(id), 2000)
PollDelay == 2000

\* a pollTaskStatus that polls again whatever it has seen
SchedulesAlways(observed) == 1

\* the timers pollTaskStatus arms after it has seen `observed`: the status
\* of the task, or "error" when getTaskStatus throws
Schedules(observed) ==
    IF observed = "error" THEN 0
    ELSE IF observed = "completed" THEN 0
    ELSE IF observed = "failed" THEN 0
    ELSE IF observed \in {"processing", "pending", "active"} THEN 1
    ELSE 1

\* the loop right after handleSubmit has called pollTaskStatus(taskId)
Polling ==
    [ outstanding |-> 1, timers |-> 0, delay |-> 0, polls |-> 1, observed |-> "none" ]

\* the continuation of pollTaskStatus after its await
Observed(loop, observed) ==
    [ loop EXCEPT !.outstanding = @ - 1,
                  !.observed = observed,
                  !.timers = @ + Schedules(observed),
                  !.delay = IF Schedules(observed) > 0 THEN PollDelay ELSE @ ]

\* handleSubmit: downloadMedia is answered with the id of the new task and
\* pollTaskStatus is called
HandleSubmit ==
    \E url \in Urls, quality \in RequestQualities :
        /\ Validate(url, quality) = 200
        /\ issued < MaxIds
        /\ Accepted(url, quality)
        /\ reply' = CreatedReply(issued + 1)
        /\ client' = [a \in 1..(issued + 1) |->
                          IF a = issued + 1 THEN Polling ELSE client[a]]

\* an outstanding getTaskStatus is answered by GET /api/task/:taskId: with
\* the task, or with 404, which makes getTaskStatus throw
PollAnswered(id) ==
    /\ id \in DOMAIN client
    /\ client[id].outstanding > 0
    /\ reply' = IF id \in DOMAIN tasks
                THEN [status |-> 200, task |-> tasks[id]]
                ELSE [status |-> 404, error |-> "Task not found"]
    /\ client' = [client EXCEPT ![id] =
                      Observed(@, IF id \in DOMAIN tasks THEN tasks[id].status
                                  ELSE "error")]
    /\ UNCHANGED <<tasks, maxTasks, issued, now, proc, statusLog, finals>>

\* an outstanding getTaskStatus fails before it reaches the backend
PollFails(id) ==
    /\ id \in DOMAIN client
    /\ client[id].outstanding > 0
    /\ client' = [client EXCEPT ![id] = Observed(@, "error")]
    /\ UNCHANGED <<tasks, maxTasks, issued, now, proc, statusLog, finals, reply>>

\* a timer of the loop fires: pollTaskStatus(id) sends the next request
PollTimer(id) ==
    /\ id \in DOMAIN client
    /\ client[id].timers > 0
    /\ client[id].polls < MaxPolls
    /\ client' = [client EXCEPT ![id].timers = @ - 1,
                                ![id].outstanding = @ + 1,
                                ![id].polls = @ + 1]
    /\ UNCHANGED <<tasks, maxTasks, issued, now, proc, statusLog, finals, reply>>

NextClient ==
    \/ HandleSubmit
    \/ \E id \in Ids : PollAnswered(id)
    \/ \E id \in Ids : PollFails(id)
    \/ \E id \in Ids : PollTimer(id)
    \/ \E id \in Ids, code \in ExitCodes \ {0} : CloseFailed(id, code)
    \/ \E id \in Ids : CloseZero(id, {5})
    \/ \E id \in Ids : StatDone(id)
    \/ Sweep
    \/ Tick

SpecClient == Init /\ [][NextClient]_vars

\* the loop has no request outstanding and no timer armed
Stopped(loop) == loop.outstanding = 0 /\ loop.timers = 0

====
